---- MODULE Spec2Model ----
(***************************************************************************)
(* Model of BmcApplication (app/tpi_rs/src/app/bmc_application.rs): the    *)
(* power-state machine, the USB mode coordination and the flash pipeline.  *)
(* Three tasks share one BmcApplication: "cmd" (runs new(), then external  *)
(* commands), "key" (the event listener's handler) and "flash" (the task   *)
(* spawned by flash_node).  Every access to shared state (store, mutex,    *)
(* pin controller, channel) is one step.                                   *)
(***************************************************************************)
EXTENDS Integers, Sequences, FiniteSets, TLC

VARIABLES
    db,           \* app_db: the persistent store, one field per key
    power_state,  \* the value inside Mutex<u8> power_state
    lockHolder,   \* the task holding the power_state MutexGuard, or "none"
    pins,         \* pin controller: what was last applied successfully
    task,         \* per task: position, return stack, arguments and locals
    booted,       \* new() has returned Ok(instance)
    sent,         \* FlashProgress messages accepted by the channel, in order
    rxAlive,      \* the Receiver has not been dropped
    helperCalls,  \* usbboot helpers invoked by the flash task so far
    budget,       \* commands / key presses / flash requests still to come
    pre           \* history: the shared state when the latest operation began

vars == <<db, power_state, lockHolder, pins, task, booted, sent, rxAlive,
          helperCalls, budget, pre>>

----------------------------------------------------------------------------
(* Bounds of the model *)
MaxNode == 1
MaxInitEnabled == 1
MaxCmdOps == 1
MaxSeqOps == 2
MaxSeqEnabled == 3
MaxTasks == 2
MaxKeys == 1
MaxFlash == 1
MaxHelperMsgs == 1
MaxMask == 15

(* Program constants *)
ChannelCapacity == 64
AllNodes == 15
DefaultUsbMode == 15
U8Max == 255

Absent == -1
Procs == {"cmd", "key", "flash"}
Nodes == 0..MaxNode
FlashNodes == {0}
Masks == 0..MaxMask

----------------------------------------------------------------------------
(* u8 arithmetic *)
RECURSIVE BitAnd(_, _)
BitAnd(a, b) ==
    IF a = 0 \/ b = 0 THEN 0
    ELSE (a % 2) * (b % 2) + 2 * BitAnd(a \div 2, b \div 2)

BitOr(a, b) == a + b - BitAnd(a, b)

BitNot(a) == U8Max - a

Pow2(n) == IF n = 0 THEN 1 ELSE IF n = 1 THEN 2 ELSE IF n = 2 THEN 4 ELSE 8

\* NodeId::to_bits: the single-bit mask of a node (Node1 is 0)
NodeBits(n) == Pow2(n)

\* Option<T> as a set of at most one element
None == {}
Some(x) == {x}

\* mutant of need_atx_change: the two answers swapped
NeedAtxChangeSwapped(current_node_state, next_node_state) ==
    IF current_node_state = 0 /\ next_node_state > 0 THEN Some(FALSE)
    ELSE IF current_node_state > 0 /\ next_node_state = 0 THEN Some(TRUE)
    ELSE None

\* need_atx_change, line 104-115
NeedAtxChange(current_node_state, next_node_state) ==
    IF current_node_state = 0 /\ next_node_state > 0 THEN Some(TRUE)
    ELSE IF current_node_state > 0 /\ next_node_state = 0 THEN Some(FALSE)
    ELSE None

\* mutant of the new state: the requested bits are never cleared first
NewPowerStateKeep(cur, bits, mask) ==
    IF bits # 0 THEN BitOr(cur, BitAnd(bits, mask)) ELSE 0

\* power_node, line 152-155: the candidate new state
NewPowerState(cur, bits, mask) ==
    IF bits # 0
    THEN BitOr(BitAnd(cur, BitNot(bits)), BitAnd(bits, mask))
    ELSE 0

\* mutant of the early return: it is never taken
NeverActive(cur, new) == FALSE

\* power_node, line 157: the requested state is already active
AlreadyActive(cur, new) == cur = new

\* app_db.get(key) is Ok when the key holds a value: it fails if the key is
\* absent or its value cannot be deserialized, which the model treats alike
Readable(stored) == stored # Absent

\* mutant of the previous mode: the persisted value is not read
PrevModeDefault(stored) == DefaultUsbMode

\* set_usb_mode, line 205: get::<u8>(USB_MODE_KEY).await.unwrap_or(0b1111)
PrevMode(stored) == IF Readable(stored) THEN stored ELSE DefaultUsbMode

\* mutant of the updated mask: the whole mask is overwritten
NewEnabledOverwrite(state, n, on) == IF on THEN NodeBits(n) ELSE 0

\* activate_slot, line 128-131: the updated enabled mask
NewEnabled(state, n, on) ==
    LET m == NodeBits(n)
        bits == IF on THEN NodeBits(n) ELSE BitNot(NodeBits(n))
    IN BitOr(BitAnd(state, BitNot(m)), BitAnd(bits, m))

\* get_node_power, line 119
NodePower(state, n) == BitAnd(state, NodeBits(n)) # 0

----------------------------------------------------------------------------
(* Tasks *)
IdleTask ==
    [pc |-> "idle", ret |-> <<>>, op |-> "none", res |-> "none",
     node |-> 0, on |-> FALSE, mode |-> "Host",
     bits |-> 0, mask |-> 0, old |-> 0, new |-> 0, atx |-> {}, calls |-> 0,
     again |-> FALSE, devices |-> Absent,
     prev_mode |-> 0, err |-> "none",
     progress_state |-> [status |-> "Idle", message |-> ""], got |-> FALSE]

\* start operation o at label l, with fresh arguments and locals
Begin(t, o, l) == [IdleTask EXCEPT !.pc = l, !.op = o]

\* `return Ok(())` of the innermost function
Ret(t) ==
    IF t.ret = <<>>
    THEN [t EXCEPT !.pc = "idle", !.res = "ok", !.mask = 0, !.old = 0, !.new = 0,
                   !.prev_mode = 0]
    ELSE [t EXCEPT !.pc = Head(t.ret), !.ret = Tail(t.ret), !.mask = 0, !.old = 0,
                   !.new = 0, !.prev_mode = 0]

\* mutant of the error return: the error is noted and the task carries on
ErrSwallowed(t, e) == [t EXCEPT !.res = "err", !.err = e]

\* an error leaving through every `?` up to the task's top-level future
Err(t, e) ==
    [t EXCEPT !.pc = IF t.op = "new" THEN "failed" ELSE "idle",
              !.res = "err", !.err = e, !.ret = <<>>, !.mask = 0, !.old = 0,
              !.new = 0, !.prev_mode = 0]

\* mutant of the lock: it is taken without waiting for its holder
LockIgnored == TRUE

\* line 149: self.power_state.lock().await completes once no guard is alive
LockFree == lockHolder = "none"

\* a MutexGuard owned by p is dropped when p's future unwinds
Dropped(p) == IF lockHolder = p THEN "none" ELSE lockHolder

Fail(p, e) ==
    /\ task' = [task EXCEPT ![p] = Err(task[p], e)]
    /\ lockHolder' = Dropped(p)

At(p, l) == task[p].pc = l

Busy(p) == task[p].pc \notin {"idle", "failed"}

\* an operation may start while fewer than budget.parallel are in progress
CanStart(p) ==
    /\ booted
    /\ At(p, "idle")
    /\ budget[p] > 0
    /\ Cardinality({q \in Procs : Busy(q)}) < budget.parallel

\* the shared state an operation of p starts from, and the operation that ran
\* just before it, whichever task ran it
Snapshot(p) ==
    LET t == IF pre.who \in Procs THEN task[pre.who] ELSE IdleTask IN
    [who |-> p, live |-> power_state, en |-> db.node_enabled, mode |-> db.usb_mode,
     last |-> [op |-> t.op, res |-> t.res, node |-> t.node, mode |-> t.mode,
               calls |-> t.calls]]

\* p starts an operation; one-at-a-time runs record the state it starts from
Started(p) ==
    /\ budget' = [budget EXCEPT ![p] = @ - 1]
    /\ pre' = IF budget.parallel = 1 THEN Snapshot(p) ELSE pre

----------------------------------------------------------------------------
(* power_node, line 147-182 *)

\* line 148: let mask = self.app_db.get::<u8>(NODE_ENABLED_KEY).await?
PnGet(p) ==
    /\ At(p, "pn_get")
    /\ IF Readable(db.node_enabled)
       THEN /\ task' = [task EXCEPT ![p].pc = "pn_lock",
                                    ![p].mask = db.node_enabled,
                                    ![p].calls = 0]
            /\ UNCHANGED lockHolder
       ELSE Fail(p, "store")
    /\ UNCHANGED <<db, power_state, pins, booted, sent, rxAlive,
                   helperCalls, budget, pre>>

\* line 149-163: take the lock, compute the new state, return if it is the old one
PnLock(p) ==
    /\ At(p, "pn_lock")
    /\ LockFree
    /\ LET t == task[p]
           new_power_state == NewPowerState(power_state, t.bits, t.mask)
           atx == NeedAtxChange(power_state, new_power_state)
       IN IF AlreadyActive(power_state, new_power_state)
          THEN /\ task' = [task EXCEPT ![p] = Ret(t)]
               /\ UNCHANGED lockHolder
          ELSE /\ lockHolder' = p
               /\ task' = [task EXCEPT
                    ![p].old = power_state,
                    ![p].new = new_power_state,
                    ![p].atx = atx,
                    ![p].pc = IF atx # None THEN "pn_atx" ELSE "pn_set"]
    /\ UNCHANGED <<db, power_state, pins, booted, sent, rxAlive,
                   helperCalls, budget, pre>>

\* line 170-173: self.pin_controller.set_atx_power(on).await?
PnAtx(p) ==
    /\ At(p, "pn_atx")
    /\ LET t == task[p] IN
       \E ok \in BOOLEAN :
         IF ok
         THEN /\ pins' = [pins EXCEPT !.atx = CHOOSE on \in t.atx : TRUE]
              /\ task' = [task EXCEPT ![p].pc = "pn_set",
                                      ![p].calls = t.calls + 1]
              /\ UNCHANGED lockHolder
         ELSE /\ task' = [task EXCEPT ![p] = [Err(t, "pin") EXCEPT !.calls = t.calls + 1]]
              /\ lockHolder' = Dropped(p)
              /\ UNCHANGED pins
    /\ UNCHANGED <<db, power_state, booted, sent, rxAlive, helperCalls, budget, pre>>

\* mutant of the commit: the live state is written before the pin call's result
CommittedEarly(ok, old, new) == new

\* line 175-180: *lock = new_power_state is reached only past the `?`
Committed(ok, old, new) == IF ok THEN new ELSE old

\* line 175-181: set_power_node(power_state, new_power_state).await?; *lock = new
PnSet(p) ==
    /\ At(p, "pn_set")
    /\ LET t == task[p] IN
       \E ok \in BOOLEAN :
         IF ok
         THEN /\ pins' = [pins EXCEPT !.power = t.new]
              /\ power_state' = Committed(TRUE, power_state, t.new)
              /\ task' = [task EXCEPT ![p] = [Ret(t) EXCEPT !.calls = t.calls + 1]]
              /\ lockHolder' = "none"
         ELSE /\ task' = [task EXCEPT ![p] = [Err(t, "pin") EXCEPT !.calls = t.calls + 1]]
              /\ lockHolder' = Dropped(p)
              /\ power_state' = Committed(FALSE, power_state, t.new)
              /\ UNCHANGED pins
    /\ UNCHANGED <<db, booted, sent, rxAlive, helperCalls, budget, pre>>

----------------------------------------------------------------------------
(* toggle_power_states, line 61-65 *)

\* the event listener dispatches a key press to the handler
KeyPress ==
    /\ CanStart("key")
    /\ task' = [task EXCEPT !["key"] = Begin(task["key"], "toggle", "tg_lock")]
    /\ Started("key")
    /\ UNCHANGED <<db, power_state, lockHolder, pins, booted, sent, rxAlive,
                   helperCalls>>

\* line 62-64: lock, *lock = !*lock, then power_node(*lock).  The guard `lock`
\* lives until the handler returns: it is dropped when power_node's result
\* leaves the handler (Dropped, in Fail).
TgLock(p) ==
    /\ At(p, "tg_lock")
    /\ LockFree
    /\ lockHolder' = p
    /\ power_state' = BitNot(power_state)
    /\ task' = [task EXCEPT ![p].bits = BitNot(power_state),
                            ![p].pc = "pn_get"]
    /\ UNCHANGED <<db, pins, booted, sent, rxAlive, helperCalls, budget, pre>>

----------------------------------------------------------------------------
(* activate_slot, line 125-137 *)

\* line 126-130: ensure!(node.to_bits() != 0); let mut state = get(..).await?
AsGet(p) ==
    /\ At(p, "as_get")
    /\ IF Readable(db.node_enabled) /\ NodeBits(task[p].node) # 0
       THEN /\ task' = [task EXCEPT ![p].pc = "as_set",
                                    ![p].mask = db.node_enabled]
            /\ UNCHANGED lockHolder
       ELSE Fail(p, "store")
    /\ UNCHANGED <<db, power_state, pins, booted, sent, rxAlive,
                   helperCalls, budget, pre>>

\* line 131-135: persist the updated mask, then power_node(node)
AsSet(p) ==
    /\ At(p, "as_set")
    /\ LET t == task[p] IN
       \E ok \in BOOLEAN :
         IF ok
         THEN /\ db' = [db EXCEPT !.node_enabled = NewEnabled(t.mask, t.node, t.on)]
              /\ task' = [task EXCEPT ![p].pc = "pn_get",
                                      ![p].bits = NodeBits(t.node),
                                      ![p].mask = 0]
              /\ UNCHANGED lockHolder
         ELSE /\ Fail(p, "store")
              /\ UNCHANGED db
    /\ UNCHANGED <<power_state, pins, booted, sent, rxAlive, helperCalls, budget, pre>>

\* get_node_power, line 117-120
GetNodePower(p) ==
    /\ At(p, "gnp_lock")
    /\ LockFree
    /\ task' = [task EXCEPT ![p] = [Ret(task[p]) EXCEPT
                    !.got = NodePower(power_state, task[p].node)]]
    /\ UNCHANGED <<db, power_state, lockHolder, pins, booted, sent, rxAlive,
                   helperCalls, budget, pre>>

----------------------------------------------------------------------------
(* usb_mode, line 184-202, and set_usb_mode, line 204-209 *)

\* PinController::set_usb_mode(node, mode, prev_mode): one node's mode bit merged
\* into the shared byte (a set bit is host, as in the default 0b1111)
MergeUsbMode(n, mode, prev_mode) ==
    BitOr(BitAnd(prev_mode, BitNot(NodeBits(n))),
          IF mode = "Host" THEN NodeBits(n) ELSE 0)

\* a fallible pin-controller call that applies `change` and goes on to `next`
PinStep(p, change, next) ==
    /\ \E ok \in BOOLEAN :
         IF ok
         THEN /\ pins' = change
              /\ task' = [task EXCEPT ![p] = next]
              /\ UNCHANGED lockHolder
         ELSE /\ Fail(p, "pin")
              /\ UNCHANGED pins
    /\ UNCHANGED <<db, power_state, booted, sent, rxAlive, helperCalls, budget, pre>>

\* a fallible store write that applies `change` and goes on to `next`
SetStep(p, change, next) ==
    /\ \E ok \in BOOLEAN :
         IF ok
         THEN /\ db' = change
              /\ task' = [task EXCEPT ![p] = next]
              /\ UNCHANGED lockHolder
         ELSE /\ Fail(p, "store")
              /\ UNCHANGED db
    /\ UNCHANGED <<pins, power_state, booted, sent, rxAlive, helperCalls, budget, pre>>

\* line 185: self.pin_controller.select_usb(node)?
UmSelect(p) ==
    /\ At(p, "um_sel")
    /\ PinStep(p, [pins EXCEPT !.usb_node = task[p].node],
                  [task[p] EXCEPT !.pc = "um_setnode"])

\* line 186: self.app_db.set(USB_NODE_KEY, node).await?
UmSetNode(p) ==
    /\ At(p, "um_setnode")
    /\ SetStep(p, [db EXCEPT !.usb_node = task[p].node],
                  [task[p] EXCEPT !.pc = "um_route"])

\* line 188: self.pin_controller.set_usb_route(UsbRoute::UsbA)?
UmRoute(p) ==
    /\ At(p, "um_route")
    /\ PinStep(p, [pins EXCEPT !.usb_route = "UsbA"],
                  [task[p] EXCEPT !.pc = "um_setroute"])

\* line 189-191: persist the route, then self.set_usb_mode(node, mode)
UmSetRoute(p) ==
    /\ At(p, "um_setroute")
    /\ SetStep(p, [db EXCEPT !.usb_route = "UsbA"],
                  [task[p] EXCEPT !.pc = "sm_get", !.ret = <<"um_boot">> \o @])

\* line 196-199: clear_usb_boot for host, set_usb_boot(node) for device
UmBoot(p) ==
    /\ At(p, "um_boot")
    /\ PinStep(p, [pins EXCEPT !.usb_boot = IF task[p].mode = "Host"
                                            THEN Absent ELSE task[p].node],
                  Ret(task[p]))

\* line 205: let prev_mode = get::<u8>(USB_MODE_KEY).await.unwrap_or(0b1111)
SmGet(p) ==
    /\ At(p, "sm_get")
    /\ task' = [task EXCEPT ![p].pc = "sm_pin",
                            ![p].prev_mode = PrevMode(db.usb_mode)]
    /\ UNCHANGED <<db, power_state, lockHolder, pins, booted, sent, rxAlive,
                   helperCalls, budget, pre>>

\* line 206: let new_mode = self.pin_controller.set_usb_mode(node, mode, prev_mode)?
SmPin(p) ==
    /\ At(p, "sm_pin")
    /\ LET t == task[p]
           new_mode == MergeUsbMode(t.node, t.mode, t.prev_mode)
       IN PinStep(p, [pins EXCEPT !.usb_mode = new_mode],
                     [t EXCEPT !.pc = "sm_set", !.prev_mode = new_mode])

\* line 208: self.app_db.set(USB_MODE_KEY, new_mode).await
SmSet(p) ==
    /\ At(p, "sm_set")
    /\ SetStep(p, [db EXCEPT !.usb_mode = task[p].prev_mode], Ret(task[p]))

----------------------------------------------------------------------------
(* new and initialize, line 35-101 *)

\* line 82-101: initialize_usb_mode; all three pin operations are attempted
InitializeUsbMode ==
    /\ At("cmd", "iu")
    /\ \E ok \in [1..3 -> BOOLEAN] :
         LET node  == IF Readable(db.usb_node) THEN db.usb_node ELSE 0
             route == IF db.usb_route # "absent" THEN db.usb_route ELSE "UsbA"
             mode  == IF Readable(db.usb_mode) THEN db.usb_mode ELSE DefaultUsbMode
         IN /\ pins' = [pins EXCEPT
                  !.usb_node  = IF ok[1] THEN node ELSE @,
                  !.usb_route = IF ok[2] THEN route ELSE @,
                  !.usb_mode  = IF ok[3] THEN mode ELSE @]
            /\ task' = [task EXCEPT !["cmd"] =
                  IF ok[1] /\ ok[2] /\ ok[3]
                  THEN [@ EXCEPT !.pc = "ip_get"]
                  ELSE Err(@, "pin")]
    /\ UNCHANGED <<db, power_state, lockHolder, booted, sent, rxAlive,
                   helperCalls, budget, pre>>

\* mutant of initialize_power: the stored mask is read but never applied
InitializePowerSkipped ==
    /\ At("cmd", "ip_get")
    /\ task' = [task EXCEPT !["cmd"] =
            IF Readable(db.node_enabled)
            THEN [@ EXCEPT !.pc = "new_done", !.bits = db.node_enabled]
            ELSE [@ EXCEPT !.pc = "ip_set"]]
    /\ UNCHANGED <<db, power_state, lockHolder, pins, booted, sent, rxAlive,
                   helperCalls, budget, pre>>

\* line 74-75: if let Ok(enabled_nodes) = get(..) { self.power_node(enabled_nodes) }
InitializePower ==
    /\ At("cmd", "ip_get")
    /\ task' = [task EXCEPT !["cmd"] =
            IF Readable(db.node_enabled)
            THEN [@ EXCEPT !.pc = "pn_get", !.bits = db.node_enabled,
                           !.ret = <<"new_done">>]
            ELSE [@ EXCEPT !.pc = "ip_set"]]
    /\ UNCHANGED <<db, power_state, lockHolder, pins, booted, sent, rxAlive,
                   helperCalls, budget, pre>>

\* line 78: self.app_db.set::<u8>(NODE_ENABLED_KEY, 0).await
InitializeDefault ==
    /\ At("cmd", "ip_set")
    /\ SetStep("cmd", [db EXCEPT !.node_enabled = 0],
                      [task["cmd"] EXCEPT !.pc = "new_done"])

\* line 45-58: initialize succeeded; the event listener runs, new returns Ok
NewDone ==
    /\ At("cmd", "new_done")
    /\ booted' = TRUE
    /\ task' = [task EXCEPT !["cmd"] = Ret(@)]
    /\ UNCHANGED <<db, power_state, lockHolder, pins, sent, rxAlive,
                   helperCalls, budget, pre>>

----------------------------------------------------------------------------
(* External commands on the running application *)

CanCall == CanStart("cmd")

Call(t) ==
    /\ task' = [task EXCEPT !["cmd"] = t]
    /\ Started("cmd")
    /\ UNCHANGED <<db, power_state, lockHolder, pins, booted, sent, rxAlive,
                   helperCalls>>

\* activate_slot(node, on)
ActivateSlot ==
    /\ CanCall
    /\ \E n \in Nodes, on \in BOOLEAN :
         Call([Begin(task["cmd"], "activate_slot", "as_get") EXCEPT
                 !.node = n, !.on = on])

\* power_on, line 139-141
PowerOn ==
    /\ CanCall
    /\ Call([Begin(task["cmd"], "power_on", "pn_get") EXCEPT !.bits = AllNodes])

\* power_off, line 143-145
PowerOff ==
    /\ CanCall
    /\ Call([Begin(task["cmd"], "power_off", "pn_get") EXCEPT !.bits = 0])

\* usb_mode(mode, node)
UsbMode ==
    /\ CanCall
    /\ \E n \in Nodes, m \in {"Host", "Device"} :
         Call([Begin(task["cmd"], "usb_mode", "um_sel") EXCEPT
                 !.node = n, !.mode = m])

\* get_node_power(node)
GetNodePowerCall ==
    /\ CanCall
    /\ \E n \in Nodes :
         Call([Begin(task["cmd"], "get_node_power", "gnp_lock") EXCEPT !.node = n])

----------------------------------------------------------------------------
(* flash_node, line 215-304 *)

F == "flash"

\* sender.send(progress_state.clone()).await?  The send waits while the channel
\* is full and fails once the receiver is gone.
Send(msg, next) ==
    /\ IF rxAlive
       THEN /\ Len(sent) < ChannelCapacity
            /\ sent' = Append(sent, msg)
            /\ task' = [task EXCEPT ![F] = [next EXCEPT !.progress_state = msg]]
            /\ UNCHANGED lockHolder
       ELSE /\ Fail(F, "send")
            /\ UNCHANGED sent
    /\ UNCHANGED <<db, power_state, pins, booted, rxAlive, helperCalls, budget, pre>>

\* the same progress_state with a new message: the status field is not assigned
WithMessage(text) == [task[F].progress_state EXCEPT !.message = text]

\* mutant of the activate_slot calls: the slot is always switched on
CallActivateOn(t, on, after) ==
    [t EXCEPT !.pc = "as_get", !.on = TRUE, !.ret = <<after>> \o @]

\* self.activate_slot(node, on).await?, then on to `after`
CallActivate(t, on, after) ==
    [t EXCEPT !.pc = "as_get", !.on = on, !.ret = <<after>> \o @]

\* a usbboot helper; write_to_device and verify_checksum also get the sender and
\* forward their own progress into the channel
Helper(name, k, ok, err, next) ==
    /\ helperCalls' = helperCalls \cup {name}
    /\ Len(sent) + k <= ChannelCapacity
    /\ sent' = sent \o [i \in 1..k |-> [status |-> "Progress", message |-> name]]
    /\ IF ok
       THEN /\ task' = [task EXCEPT ![F].pc = next]
            /\ UNCHANGED lockHolder
       ELSE Fail(F, err)
    /\ UNCHANGED <<db, power_state, pins, booted, rxAlive, budget, pre>>

\* mutant of the device check: its error is ignored
AfterCheckIgnored(t, devices) == [t EXCEPT !.pc = "f_send4"]

\* line 261: check_only_one_device_present(&allowed_devices)? with `devices`
\* allow-listed devices attached
AfterCheck(t, devices) ==
    IF devices = 1 THEN [t EXCEPT !.pc = "f_send4"]
    ELSE Err(t, IF devices = 0 THEN "no device" ELSE "multiple devices")

\* line 215-220: flash_node creates the channel and spawns the task
FlashNode ==
    /\ CanStart(F)
    /\ \E n \in FlashNodes :
         task' = [task EXCEPT ![F] =
            [Begin(@, "flash", "f_send1") EXCEPT !.node = n]]
    /\ Started(F)
    /\ sent' = <<>>
    /\ rxAlive' = TRUE
    /\ helperCalls' = {}
    /\ UNCHANGED <<db, power_state, lockHolder, pins, booted>>

\* line 229-237: status = Progress{..}, "Powering off node", activate_slot(node, false)
FSendPowerOff ==
    /\ At(F, "f_send1")
    /\ Send([status |-> "Progress", message |-> "Powering off node"],
            CallActivate(task[F], FALSE, "f_clr"))

\* line 238-240: self.pin_controller.clear_usb_boot()?
FClearBoot ==
    /\ At(F, "f_clr")
    /\ PinStep(F, [pins EXCEPT !.usb_boot = Absent], [task[F] EXCEPT !.pc = "f_sel"])

\* line 242: self.pin_controller.select_usb(node)?
FSelect ==
    /\ At(F, "f_sel")
    /\ PinStep(F, [pins EXCEPT !.usb_node = task[F].node],
                  [task[F] EXCEPT !.pc = "f_boot"])

\* line 243: self.pin_controller.set_usb_boot(node)?
FSetBoot ==
    /\ At(F, "f_boot")
    /\ PinStep(F, [pins EXCEPT !.usb_boot = task[F].node],
                  [task[F] EXCEPT !.pc = "f_route"])

\* line 244-246: set_usb_route(UsbRoute::BMC)?, then set_usb_mode(node, Device)
FRoute ==
    /\ At(F, "f_route")
    /\ PinStep(F, [pins EXCEPT !.usb_route = "BMC"],
                  [task[F] EXCEPT !.pc = "sm_get", !.mode = "Device",
                                  !.ret = <<"f_send2">> \o @])

\* line 248-251: "Prerequisite settings toggled", activate_slot(node, true)
FSendPrereq ==
    /\ At(F, "f_send2")
    /\ Send(WithMessage("Prerequisite settings toggled, powering on"),
            CallActivate(task[F], TRUE, "f_send3"))

\* line 253-256
FSendCheck ==
    /\ At(F, "f_send3")
    /\ Send(WithMessage("Checking for presence of a USB device"),
            [task[F] EXCEPT !.pc = "f_check"])

\* line 258-261: usbboot::check_only_one_device_present(&allowed_devices)?
FCheck ==
    /\ At(F, "f_check")
    /\ \E devices \in 0..2 :
         /\ helperCalls' = helperCalls \cup {"check_only_one_device_present"}
         /\ task' = [task EXCEPT ![F] =
               AfterCheck([@ EXCEPT !.devices = devices], devices)]
         /\ lockHolder' = IF devices = 1 THEN lockHolder ELSE Dropped(F)
    /\ UNCHANGED <<db, power_state, pins, booted, sent, rxAlive, budget, pre>>

\* line 263-264
FSendMsd ==
    /\ At(F, "f_send4")
    /\ Send(WithMessage("Rebooting as a USB mass storage device"),
            [task[F] EXCEPT !.pc = "f_msd"])

\* line 266-268: usbboot::boot_node_to_msd(node)?
FMsd ==
    /\ At(F, "f_msd")
    /\ \E ok \in BOOLEAN :
         Helper("boot_node_to_msd", 0, ok, "boot_node_to_msd", "f_send5")

\* line 270-271
FSendPath ==
    /\ At(F, "f_send5")
    /\ Send(WithMessage("Checking for presence of a device file"),
            [task[F] EXCEPT !.pc = "f_path"])

\* line 273-274: usbboot::get_device_path(&allowed_vendors).await?
FPath ==
    /\ At(F, "f_path")
    /\ \E ok \in BOOLEAN :
         Helper("get_device_path", 0, ok, "get_device_path", "f_send6")

\* line 276-277
FSendWrite ==
    /\ At(F, "f_send6")
    /\ Send(WithMessage("Writing image to device"), [task[F] EXCEPT !.pc = "f_write"])

\* line 279-280: usbboot::write_to_device(image_path, &device_path, &sender).await?
FWrite ==
    /\ At(F, "f_write")
    /\ \E ok \in BOOLEAN, k \in 0..MaxHelperMsgs :
         /\ k > 0 => rxAlive
         /\ Helper("write_to_device", k, ok, "write_to_device", "f_send7")

\* line 282-283
FSendVerify ==
    /\ At(F, "f_send7")
    /\ Send(WithMessage("Verifying checksum"), [task[F] EXCEPT !.pc = "f_verify"])

\* line 285: usbboot::verify_checksum(img_checksum, img_len, &device_path, &sender)
FVerify ==
    /\ At(F, "f_verify")
    /\ \E ok \in BOOLEAN, k \in 0..MaxHelperMsgs :
         /\ k > 0 => rxAlive
         /\ Helper("verify_checksum", k, ok, "verify_checksum", "f_send8")

\* line 287-290: "Flashing successful, restarting device", activate_slot(node, false)
FSendRestart ==
    /\ At(F, "f_send8")
    /\ Send(WithMessage("Flashing successful, restarting device"),
            CallActivate(task[F], FALSE, "f_usb"))

\* line 291: self.usb_mode(UsbMode::Host, node).await?
FUsbMode ==
    /\ At(F, "f_usb")
    /\ task' = [task EXCEPT ![F].pc = "um_sel", ![F].mode = "Host",
                            ![F].ret = <<"f_act4">> \o @]
    /\ UNCHANGED <<db, power_state, lockHolder, pins, booted, sent, rxAlive,
                   helperCalls, budget, pre>>

\* line 293-295: sleep(reboot_delay), activate_slot(node, true)
FPowerOn ==
    /\ At(F, "f_act4")
    /\ task' = [task EXCEPT ![F] = CallActivate(@, TRUE, "f_send9")]
    /\ UNCHANGED <<db, power_state, lockHolder, pins, booted, sent, rxAlive,
                   helperCalls, budget, pre>>

\* line 297-300: message = "Done", send, Ok(())
FSendDone ==
    /\ At(F, "f_send9")
    /\ Send(WithMessage("Done"), Ret(task[F]))

(* The caller's end of the progress channel: the Receiver is dropped *)
RxDrop ==
    /\ rxAlive
    /\ rxAlive' = FALSE
    /\ UNCHANGED <<db, power_state, lockHolder, pins, task, booted, sent,
                   helperCalls, budget, pre>>

----------------------------------------------------------------------------
(* The system *)

\* the store as found at start-up: new, or left by an earlier run with one of
\* the enabled masks es
InitDb(es) ==
    {[node_enabled |-> Absent, usb_node |-> Absent, usb_route |-> "absent",
      usb_mode |-> Absent]}
    \cup
    {[node_enabled |-> e, usb_node |-> MaxNode, usb_route |-> "UsbA",
      usb_mode |-> DefaultUsbMode - 1] : e \in es}

NoSnapshot ==
    [who |-> "none", live |-> 0, en |-> 0, mode |-> 0,
     last |-> [op |-> "none", res |-> "none", node |-> 0, mode |-> "Host",
               calls |-> 0]]

\* line 39-43: the instance as constructed, before initialize
Constructed ==
    /\ power_state = 0
    /\ lockHolder = "none"
    /\ pins = [atx |-> FALSE, power |-> 0, usb_node |-> Absent,
               usb_route |-> "unset", usb_mode |-> Absent, usb_boot |-> Absent]
    /\ task = [p \in Procs |->
                 IF p = "cmd" THEN [IdleTask EXCEPT !.pc = "iu", !.op = "new"]
                 ELSE IdleTask]
    /\ booted = FALSE
    /\ sent = <<>>
    /\ rxAlive = FALSE
    /\ helperCalls = {}
    /\ pre = NoSnapshot

\* every task has work, and up to MaxTasks operations are in progress at once
Init ==
    /\ Constructed
    /\ db \in InitDb(1..MaxInitEnabled)
    /\ budget = [cmd |-> MaxCmdOps, key |-> MaxKeys, flash |-> MaxFlash,
                 parallel |-> MaxTasks]

PowerStep(p) ==
    \/ PnGet(p) \/ PnLock(p) \/ PnAtx(p) \/ PnSet(p)
    \/ TgLock(p)
    \/ AsGet(p) \/ AsSet(p)
    \/ GetNodePower(p)

UsbStep(p) ==
    \/ UmSelect(p) \/ UmSetNode(p) \/ UmRoute(p) \/ UmSetRoute(p) \/ UmBoot(p)
    \/ SmGet(p) \/ SmPin(p) \/ SmSet(p)

NewStep == InitializeUsbMode \/ InitializePower \/ InitializeDefault \/ NewDone

CmdStep == ActivateSlot \/ PowerOn \/ PowerOff \/ UsbMode \/ GetNodePowerCall

FlashStep ==
    \/ FlashNode \/ FSendPowerOff \/ FClearBoot \/ FSelect \/ FSetBoot \/ FRoute
    \/ FSendPrereq \/ FSendCheck \/ FCheck \/ FSendMsd \/ FMsd \/ FSendPath
    \/ FPath \/ FSendWrite \/ FWrite \/ FSendVerify \/ FVerify \/ FSendRestart
    \/ FUsbMode \/ FPowerOn \/ FSendDone

Next ==
    \/ NewStep
    \/ CmdStep
    \/ KeyPress
    \/ FlashStep
    \/ RxDrop
    \/ \E p \in Procs : PowerStep(p) \/ UsbStep(p)

\* the tasks run concurrently, interleaved at every step
Spec == Init /\ [][Next]_vars

(* One operation at a time: a run of commands and key presses, or a command *)
(* and a flash request                                                      *)
SeqBudgets ==
    {[cmd |-> MaxSeqOps, key |-> MaxKeys, flash |-> 0, parallel |-> 1],
     [cmd |-> MaxCmdOps, key |-> 0, flash |-> MaxFlash, parallel |-> 1]}

SeqInit ==
    /\ Constructed
    /\ db \in InitDb(0..MaxSeqEnabled)
    /\ budget \in SeqBudgets

SeqSpec == SeqInit /\ [][Next]_vars

(* power_node by itself: one caller, every live state, enabled mask and request *)
PowerNodeInit ==
    /\ db \in {[node_enabled |-> e, usb_node |-> Absent, usb_route |-> "absent",
                usb_mode |-> Absent] : e \in Masks}
    /\ power_state \in Masks
    /\ lockHolder = "none"
    /\ pins = [atx |-> power_state # 0, power |-> power_state, usb_node |-> 0,
               usb_route |-> "UsbA", usb_mode |-> DefaultUsbMode,
               usb_boot |-> Absent]
    /\ \E bits \in Masks :
         task = [p \in Procs |->
                   IF p = "cmd"
                   THEN [Begin(IdleTask, "power_node", "pn_get") EXCEPT !.bits = bits]
                   ELSE IdleTask]
    /\ booted = TRUE
    /\ sent = <<>>
    /\ rxAlive = FALSE
    /\ helperCalls = {}
    /\ budget = [cmd |-> MaxCmdOps, key |-> 0, flash |-> 0, parallel |-> 1]
    /\ pre = [NoSnapshot EXCEPT !.who = "cmd", !.live = power_state,
                                !.en = db.node_enabled]

\* the same call once more, straight after a call that succeeded
PowerNodeAgain ==
    /\ CanStart("cmd")
    /\ task["cmd"].res = "ok"
    /\ task' = [task EXCEPT !["cmd"] =
          [Begin(@, "power_node", "pn_get") EXCEPT !.bits = task["cmd"].bits,
                                                   !.again = TRUE]]
    /\ Started("cmd")
    /\ UNCHANGED <<db, power_state, lockHolder, pins, booted, sent, rxAlive,
                   helperCalls>>

PowerNodeNext ==
    \/ PnGet("cmd") \/ PnLock("cmd") \/ PnAtx("cmd") \/ PnSet("cmd")
    \/ PowerNodeAgain

PowerNodeSpec == PowerNodeInit /\ [][PowerNodeNext]_vars

(* Fair scheduling: the runtime polls every task that can make progress.      *)
(* Key presses, commands, flash requests and the drop of the receiver are the *)
(* environment's and carry no fairness.                                       *)
FlashRun ==
    \/ FSendPowerOff \/ FClearBoot \/ FSelect \/ FSetBoot \/ FRoute
    \/ FSendPrereq \/ FSendCheck \/ FCheck \/ FSendMsd \/ FMsd \/ FSendPath
    \/ FPath \/ FSendWrite \/ FWrite \/ FSendVerify \/ FVerify \/ FSendRestart
    \/ FUsbMode \/ FPowerOn \/ FSendDone

FairInit ==
    /\ Constructed
    /\ db \in InitDb(1..MaxInitEnabled)
    /\ budget \in {[cmd |-> MaxCmdOps, key |-> MaxKeys, flash |-> 0, parallel |-> 1],
                   [cmd |-> 0, key |-> MaxKeys, flash |-> MaxFlash,
                    parallel |-> MaxTasks]}

Fairness ==
    /\ WF_vars(NewStep)
    /\ WF_vars(FlashRun)
    /\ \A p \in Procs : WF_vars(PowerStep(p) \/ UsbStep(p))

FairSpec == FairInit /\ [][Next]_vars /\ Fairness

----------------------------------------------------------------------------
(* Properties *)

Cmd == task["cmd"]
Key == task["key"]
Flash == task[F]

Returned(t, o) == t.pc = "idle" /\ t.op = o /\ t.res = "ok"

Enabled == IF db.node_enabled = Absent THEN 0 ELSE db.node_enabled

LastSent == sent[Len(sent)]

\* C1: in every reachable state the live power mask has no bit set that is
\* clear in the durable enabled mask: live_power_state & ~power_enabled_mask = 0
C1_LiveWithinEnabled == BitAnd(power_state, BitNot(Enabled)) = 0

\* C2 as stated: after a successful power_node(R) run alone from live state L
\* with enabled mask E, for every R including 0, the live bits outside R are
\* those of L and the live bits inside R are R & E
C2_FrameAndFilter ==
    (Returned(Cmd, "power_node") /\ pre.who = "cmd") =>
        /\ BitAnd(power_state, BitNot(Cmd.bits)) = BitAnd(pre.live, BitNot(Cmd.bits))
        /\ BitAnd(power_state, Cmd.bits) = BitAnd(Cmd.bits, pre.en)

\* C2 amended: the same for every R other than 0; after a successful
\* power_node(0) the live state is 0, whatever L and E were
C2_FrameAndFilterUnlessZero ==
    (Returned(Cmd, "power_node") /\ pre.who = "cmd") =>
        IF Cmd.bits # 0
        THEN /\ BitAnd(power_state, BitNot(Cmd.bits))
                  = BitAnd(pre.live, BitNot(Cmd.bits))
             /\ BitAnd(power_state, Cmd.bits) = BitAnd(Cmd.bits, pre.en)
        ELSE power_state = 0

\* C2 witness: a request that switched slots on and off and left powered slots
\* outside the request alone; and a power_node(0) that switched slots off
C2_Witness ==
    /\ Returned(Cmd, "power_node")
    /\ ~Cmd.again
    /\ Cmd.bits # 0
    /\ BitAnd(pre.live, BitNot(Cmd.bits)) # 0
    /\ BitAnd(pre.live, Cmd.bits) # BitAnd(power_state, Cmd.bits)
    /\ BitAnd(Cmd.bits, BitNot(pre.en)) # 0

\* C3: power_node called again with the same target straight after a call that
\* succeeded makes no pin-controller call and leaves the live state unchanged
C3_SecondCallIsNoOp ==
    Cmd.again =>
        /\ Cmd.calls = 0
        /\ Cmd.pc \notin {"pn_atx", "pn_set"}
        /\ power_state = pre.live
        /\ Cmd.pc = "idle" => Cmd.res = "ok"

\* C3 witness: the second call has returned after a first call that did drive
\* the pin controller
C3_Witness ==
    /\ Cmd.again
    /\ Returned(Cmd, "power_node")
    /\ pre.last.calls = 2

\* what one key press is said to do to the live state L under enabled mask E
Flipped(L, E) == IF BitAnd(L, E) # 0 THEN 0 ELSE E

\* C4: a key press handled alone returns, and then the live state is flipped:
\* no slot powered if an enabled slot was powered, else exactly the enabled slots
C4_ToggleFlips ==
    (At("key", "tg_lock") /\ budget.parallel = 1)
        ~> (Returned(Key, "toggle") /\ power_state = Flipped(pre.live, pre.en))

\* C5: a successful activate_slot(node, false), run by itself on a node that
\* was enabled and powered, leaves the node unpowered and its enabled bit
\* clear, and the enabled and live bits of every other node as they were
C5_DeactivatePowersDown ==
    LET m == NodeBits(Cmd.node) IN
    (/\ Returned(Cmd, "activate_slot") /\ ~Cmd.on /\ pre.who = "cmd"
     /\ NodePower(pre.live, Cmd.node) /\ BitAnd(pre.en, m) # 0) =>
        /\ ~NodePower(power_state, Cmd.node)
        /\ BitAnd(db.node_enabled, m) = 0
        /\ BitAnd(db.node_enabled, BitNot(m)) = BitAnd(pre.en, BitNot(m))
        /\ BitAnd(power_state, BitNot(m)) = BitAnd(pre.live, BitNot(m))

\* C5 witness: such a call has returned and another node is enabled and powered
C5_Witness ==
    /\ Returned(Cmd, "activate_slot") /\ ~Cmd.on /\ pre.who = "cmd"
    /\ NodePower(pre.live, Cmd.node)
    /\ BitAnd(pre.en, NodeBits(Cmd.node)) # 0
    /\ BitAnd(power_state, BitNot(NodeBits(Cmd.node))) # 0
    /\ BitAnd(db.node_enabled, BitNot(NodeBits(Cmd.node))) # 0

C7_ModeBitsMerged ==
    (/\ Returned(Cmd, "usb_mode") /\ Cmd.mode = "Host" /\ pre.who = "cmd"
     /\ pre.last.op = "usb_mode" /\ pre.last.res = "ok"
     /\ pre.last.mode = "Device" /\ pre.last.node # Cmd.node) =>
        /\ BitAnd(db.usb_mode, NodeBits(pre.last.node))
             = BitAnd(pre.mode, NodeBits(pre.last.node))
        /\ BitAnd(db.usb_mode, NodeBits(pre.last.node)) = 0
        /\ BitAnd(db.usb_mode, NodeBits(Cmd.node)) # 0

\* C7 witness: the two calls have returned
C7_Witness ==
    /\ Returned(Cmd, "usb_mode") /\ Cmd.mode = "Host" /\ pre.who = "cmd"
    /\ pre.last.op = "usb_mode" /\ pre.last.res = "ok"
    /\ pre.last.mode = "Device" /\ pre.last.node # Cmd.node

\* C8: when the flash task returns success with the receiver alive, the last
\* message on the channel has status FlashStatus::Done
C8_LastStatusDone ==
    (Returned(Flash, "flash") /\ rxAlive) =>
        (Len(sent) > 0 /\ LastSent.status = "Done")

\* C9: when check_only_one_device_present finds no or several devices, the task
\* has ended with that error, the last message sent is the one announcing the
\* check, and no other helper was invoked
C9_CheckFailureStops ==
    Flash.devices \in {0, 2} =>
        /\ Flash.pc = "idle"
        /\ Flash.res = "err"
        /\ Flash.err = IF Flash.devices = 0 THEN "no device" ELSE "multiple devices"
        /\ Len(sent) > 0
        /\ LastSent.message = "Checking for presence of a USB device"
        /\ helperCalls = {"check_only_one_device_present"}

\* C9 witness: the check has found two devices
C9_Witness == Flash.devices = 2 /\ Flash.op = "flash"

\* C10: once the receiver is dropped while the flash task runs, the task
\* eventually ends with an error; it never blocks forever
C10_DropTerminates ==
    (Busy(F) /\ ~rxAlive) ~> (Flash.pc = "idle" /\ Flash.res = "err")

\* C11: every invocation of toggle_power_states eventually returns and releases
\* the live power-state lock, so that later callers can take it
C11_ToggleReleasesLock ==
    (Key.op = "toggle" /\ Busy("key")) ~> (~Busy("key") /\ lockHolder # "key")

\* C12: when set_atx_power or set_power_node fails inside power_node, the call
\* returns the error and the live state is the one from before the call
C12_PinFailureKeepsLive ==
    (Cmd.op = "power_node" /\ Cmd.pc = "idle" /\ Cmd.res = "err") =>
        /\ Cmd.err = "pin"
        /\ Cmd.calls \in {1, 2}
        /\ power_state = pre.live
        /\ lockHolder = "none"

\* C12 witness: set_atx_power succeeded and set_power_node then failed, on a
\* request that would have changed the live state
C12_Witness ==
    /\ Cmd.op = "power_node" /\ Cmd.pc = "idle" /\ Cmd.res = "err"
    /\ Cmd.calls = 2
    /\ pins.atx # (pre.live # 0)
    /\ NewPowerState(pre.live, Cmd.bits, pre.en) # pre.live

\* C13: every task that is between computing a new power state and committing
\* it, where set_atx_power and set_power_node are called, holds the live
\* power-state lock; so at most one task is there at a time
C13_PinCallsUnderLock ==
    /\ \A p \in Procs : task[p].pc \in {"pn_atx", "pn_set"} => lockHolder = p
    /\ Cardinality({p \in Procs : task[p].pc \in {"pn_atx", "pn_set"}}) <= 1

\* C13 witness: one task is about to call set_power_node while another waits
\* for the lock in power_node
C13_Witness ==
    \E p, q \in Procs :
        /\ p # q
        /\ At(p, "pn_set") /\ lockHolder = p
        /\ At(q, "pn_lock")
        /\ NewPowerState(power_state, task[q].bits, task[q].mask) # power_state

\* C14: when initialization has succeeded from live state 0, the live state is
\* the stored enabled mask E; with the key absent the store now holds 0, the
\* live state is 0 and no pin-controller power call was made
C14_StartupReconciles ==
    /\ At("cmd", "ip_set") => (db.node_enabled = Absent /\ power_state = 0)
    /\ (Cmd.op = "new" /\ Cmd.pc = "new_done") =>
          /\ db.node_enabled = Cmd.bits
          /\ power_state = Cmd.bits
          /\ pins.power = power_state
          /\ Cmd.bits = 0 =>
                (Cmd.calls = 0 /\ pins.power = 0 /\ ~pins.atx)

\* C14 witness: initialization has succeeded with a stored mask of two slots
C14_Witness ==
    /\ Cmd.op = "new" /\ Cmd.pc = "new_done"
    /\ Cmd.bits = MaxSeqEnabled
    /\ power_state = MaxSeqEnabled
    /\ Cmd.calls = 2

FlashBit == NodeBits(Flash.node)

Idle == \A p \in Procs : ~Busy(p)

\* the flash task is inside the set_usb_mode(node, Device) of line 246
InDeviceSetup == Flash.pc \in {"sm_get", "sm_pin", "sm_set"} /\ Flash.mode = "Device"

\* the flash task is inside the usb_mode(Host, node) of line 291
InHostRestore ==
    /\ Flash.mode = "Host"
    /\ Flash.pc \in {"um_sel", "um_setnode", "um_route", "um_setroute", "um_boot",
                     "sm_get", "sm_pin", "sm_set"}

\* C15: in a flash run with no other caller, the slot is disabled and off while
\* the boot strap and device mode are set; it is powered on only with that
\* configuration complete; write_to_device starts after the device check and
\* boot_node_to_msd succeeded, verify_checksum after write_to_device, and host
\* mode is restored after verify_checksum
C15_StagesInOrder ==
    Flash.op = "flash" =>
        /\ (Flash.pc \in {"f_sel", "f_boot", "f_route"} \/ InDeviceSetup) =>
              /\ BitAnd(db.node_enabled, FlashBit) = 0
              /\ ~NodePower(power_state, Flash.node)
        /\ Flash.ret = <<"f_send3">> =>
              /\ pins.usb_node = Flash.node
              /\ pins.usb_boot = Flash.node
              /\ pins.usb_route = "BMC"
              /\ BitAnd(pins.usb_mode, FlashBit) = 0
              /\ BitAnd(db.usb_mode, FlashBit) = 0
        /\ (Flash.pc = "f_write" \/ "write_to_device" \in helperCalls) =>
              /\ Flash.devices = 1
              /\ {"check_only_one_device_present", "boot_node_to_msd"}
                    \subseteq helperCalls
        /\ (Flash.pc = "f_verify" \/ "verify_checksum" \in helperCalls) =>
              "write_to_device" \in helperCalls
        /\ InHostRestore => "verify_checksum" \in helperCalls

\* C15 witness: the slot was powered when flashing began and the run has
\* reached the restore of host mode
C15_Witness ==
    /\ Flash.op = "flash"
    /\ InHostRestore
    /\ NodePower(pre.live, Flash.node)

\* C16: once a stage of flash_node has failed, the task has ended with that
\* error and does nothing more: with no other operation in progress, the store,
\* the pins, the live state, the channel and the helper calls stay as they are
C16_FailureIsTerminal ==
    [][(/\ Flash.op = "flash" /\ Flash.res = "err"
        /\ ~Busy("cmd") /\ ~Busy("key")
        /\ task'[F].res = "err")
       => (/\ Flash.pc = "idle"
           /\ Flash.err # "none"
           /\ UNCHANGED <<db, pins, power_state, sent, helperCalls, lockHolder>>)]_vars

\* C16 witness: the flash task failed at set_usb_route, leaving the slot
\* disabled and the boot strap asserted, after its first message only
C16_Witness ==
    /\ Flash.op = "flash" /\ Flash.pc = "idle" /\ Flash.res = "err"
    /\ Flash.err = "pin"
    /\ pins.usb_boot = Flash.node
    /\ pins.usb_route # "BMC"
    /\ BitAnd(db.node_enabled, FlashBit) = 0
    /\ Len(sent) = 1

\* C17: when the flash task's activate_slot(n, false) and a power_on() have
\* both returned successfully, with no key pressed, node n is not powered
C17_DisabledStaysOff ==
    (/\ Flash.op = "flash" /\ Flash.pc = "f_clr"
     /\ Returned(Cmd, "power_on")
     /\ Key.op = "none") =>
        ~NodePower(power_state, Flash.node)

\* C18: when activate_slot(a, x) of a command and activate_slot(b, false) of
\* the flash task, for distinct nodes a and b, have both returned successfully,
\* the enabled mask has bit a equal to x and bit b clear
C18_NoLostEnable ==
    (/\ Flash.op = "flash" /\ Flash.pc = "f_clr"
     /\ Returned(Cmd, "activate_slot")
     /\ Cmd.node # Flash.node) =>
        /\ (BitAnd(db.node_enabled, NodeBits(Cmd.node)) # 0) = Cmd.on
        /\ BitAnd(db.node_enabled, FlashBit) = 0

\* C19: whenever no operation is in progress on the running application, the
\* ATX rail as last commanded is on if and only if the live state is non-zero
C19_RailTracksLive ==
    (booted /\ Idle) => (pins.atx <=> power_state # 0)

\* the persisted USB node and route, a missing key standing for the default
\* that initialize_usb_mode applies
StoredUsbNode == IF Readable(db.usb_node) THEN db.usb_node ELSE 0

StoredUsbRoute == IF db.usb_route # "absent" THEN db.usb_route ELSE "UsbA"

\* C20: whenever no usb_mode call and no flash task is in progress, the
\* persisted node and route are the ones last applied to the pin controller
C20_StoreMirrorsPins ==
    (booted /\ Idle) =>
        /\ pins.usb_node = StoredUsbNode
        /\ pins.usb_route = StoredUsbRoute

====
